---- MODULE Spec2Model ----
(***************************************************************************)
(* Model of the association mode of gorm (association.go): one Association *)
(* handle bound to db.Statement.ReflectValue (the owner or the slice of    *)
(* owners), the in-memory relationship fields of the owners, and the rows  *)
(* of the persistence layer that link owners to related entities.          *)
(*                                                                         *)
(* Every handler is one action.  A handler is computed by threading a      *)
(* record m through the statements of its body:                            *)
(*   m.owners  the owners of Statement.ReflectValue, each [id, field]      *)
(*   m.err     association.Error                                           *)
(*   m.dbErr   association.DB.Error (tx.Error, line 196)                   *)
(*   m.links   the persisted associations, pairs <<owner key, related key>>*)
(*   m.calls   the persistence calls issued so far by this handler         *)
(*   m.writes  every value assigned to association.Error by this handler   *)
(*   m.panic   the handler ended in a Go run-time panic                    *)
(***************************************************************************)
EXTENDS Integers, Sequences, FiniteSets, TLC

\* ---------------------------------------------------------------- bounds
MaxRel == 2          \* related entities have keys 1..MaxRel
MaxOwner == 3        \* owner rows have keys 1..MaxOwner; MaxOwner is owner B
MaxVals == 2         \* longest values... list passed to an operation
MaxOps == 2          \* operations called on one handle
MaxInitLinks == 2    \* associations persisted before the handle is bound

\* ---------------------------------------------------------------- values
Nil == "nil"
ErrUnsupportedRelation == "ErrUnsupportedRelation"
ErrParse == "ErrParse"
LengthMismatch == "invalid association values, length doesn't match"
UnsupportedDataType == "unsupported data type"
FieldSetError == "failed to set value to field"
ExecutionError == "ExecutionError"

HasOne == "has_one"
HasMany == "has_many"
BelongsTo == "belongs_to"
Many2Many == "many_to_many"
Kinds == {HasOne, HasMany, BelongsTo, Many2Many}

RelIds == 1..MaxRel
OtherOwner == MaxOwner
FreshId == MaxOwner + 1

\* An element of a relationship field: a related entity with its primary key
\* and the foreign-key field it carries in memory (0 is the zero value).
Elem(i, f) == [id |-> i, fk |-> f]

\* The values a caller passes, after reflect.Indirect(reflect.ValueOf(v)):
\* a struct of the related type T or of another type U, or a slice whose
\* elements are of type T, U, []T or []U.
StructT(i, f) == [k |-> "Struct", ty |-> "T", id |-> i, fk |-> f, elems |-> <<>>, n |-> 0]
StructU == [k |-> "Struct", ty |-> "U", id |-> 1, fk |-> 0, elems |-> <<>>, n |-> 0]
SliceT(es) == [k |-> "Slice", ty |-> "T", id |-> 0, fk |-> 0, elems |-> es, n |-> Len(es)]
SliceOf(t) == [k |-> "Slice", ty |-> t, id |-> 0, fk |-> 0, elems |-> <<>>, n |-> 1]

\* the values given to Append and Replace; the values given to Delete are
\* related entities that carry the key of owner 1 as their foreign key, or
\* (but for the last key) are built from their primary key alone
TStructs == {StructT(i, f) : i \in RelIds, f \in 0..1} \ {StructT(MaxRel, 0)}
Values == {StructT(i, 0) : i \in RelIds} \cup {StructU, SliceOf("[]U")}

SeqsUpTo(S, n) == UNION {[1..k -> S] : k \in 0..n}

\* ------------------------------------------------------------- the schema
\* rel.References: has-one/has-many reference the owner's primary key from
\* the related row; belongs-to keeps the foreign key on the owner; a
\* many2many has one reference per side of the join table.
References(kind) ==
  CASE kind \in {HasOne, HasMany} -> <<[OwnPrimaryKey |-> TRUE, PrimaryValue |-> ""]>>
    [] kind = BelongsTo -> <<[OwnPrimaryKey |-> FALSE, PrimaryValue |-> ""]>>
    [] OTHER -> <<[OwnPrimaryKey |-> TRUE, PrimaryValue |-> ""],
                  [OwnPrimaryKey |-> FALSE, PrimaryValue |-> ""]>>

HasJoinTable(kind) == kind = Many2Many

VARIABLES
  schemaKind,   \* Type of the relationship "Rel" of the owner's schema
  ownerKind,    \* Statement.ReflectValue.Kind(): "Struct" or "Slice"
  owners,       \* the owners of Statement.ReflectValue
  links,        \* persisted associations <<owner key, related key>>
  bound,        \* db.Association(column) has returned the handle
  relationship, \* association.Relationship: a kind, or Nil
  err,          \* association.Error
  dbErr,        \* association.DB.Error
  panicked,     \* the last operation ended in a run-time panic
  ops,          \* operations called on the handle
  lastOp,       \* the last operation: [name, values, clear]
  pre,          \* err, owners, links before the last operation, and the one before it
  calls,        \* persistence calls issued by the last operation
  writes,       \* values assigned to association.Error by the last operation
  ret,          \* the error the last operation returned
  count,        \* the count the last Count returned
  out           \* the related keys the last Find loaded into out

vars == <<schemaKind, ownerKind, owners, links, bound, relationship, err, dbErr,
          panicked, ops, lastOp, pre, calls, writes, ret, count, out>>

\* ------------------------------------------------- steps of a handler body
\* association.Error = e
SetErr(m, e) == [m EXCEPT !.err = e, !.writes = Append(@, e)]

\* a run-time panic unwinds the handler: nothing after it runs
Panic(m) == [m EXCEPT !.panic = TRUE]

\* Statement.Schema.PrioritizedPrimaryField.ValueOf(owner): the second
\* result tells whether the primary key is the zero value
IsZeroKey(o) == o.id = 0

\* rel.Field.Set(owner, reflect.New(rel.Field.IndirectFieldType)): the
\* relationship field becomes the zero value; the result is not looked at
FieldSetZero(m, i) == [m EXCEPT !.owners[i].field = <<>>]

\* rel.Field.Set(owner, v) for a has-one/belongs-to field: a value of the
\* related type is stored, any other value is refused with an error
FieldSetValue(m, i, ev) ==
  IF ev.ty = "T"
    THEN SetErr([m EXCEPT !.owners[i].field = <<Elem(ev.id, ev.fk)>>], Nil)
    ELSE SetErr(m, FieldSetError)

\* rel.Field.Set(owner, fieldValue) for a has-many/many2many field
FieldSetCollection(m, i) == SetErr([m EXCEPT !.owners[i].field = m.fv.elems], Nil)

\* the reflect values appendToRelations looks at: rv itself when it is a
\* struct, reflect.Indirect(rv.Index(i)) for each index when it is a slice
Evs(rv) ==
  IF rv.k = "Struct" THEN <<[ty |-> rv.ty, id |-> rv.id, fk |-> rv.fk]>>
  ELSE IF rv.ty = "T"
    THEN [j \in 1..Len(rv.elems) |-> [ty |-> "T", id |-> rv.elems[j].id, fk |-> rv.elems[j].fk]]
    ELSE [j \in 1..rv.n |-> [ty |-> rv.ty, id |-> 0, fk |-> 0]]

\* appendToFieldValues (lines 293-301).  reflect.Append panics when
\* fieldValue is the pointer made by reflect.New (line 290); Type.Elem
\* panics on a struct type (line 296); Value.Elem panics on a slice value
\* (line 297).
appendToFieldValues(m, ev) ==
  IF m.panic THEN m
  ELSE IF ev.ty = "T"
    THEN IF m.fv.ptr THEN Panic(m)
         ELSE [m EXCEPT !.fv.elems = Append(@, Elem(ev.id, ev.fk))]
  ELSE IF ev.ty = "U" THEN Panic(m)
  ELSE IF ev.ty = "[]T" THEN Panic(m)
  ELSE SetErr(m, UnsupportedDataType)

RECURSIVE AppendAll(_, _)
AppendAll(m, evs) ==
  IF evs = <<>> THEN m ELSE AppendAll(appendToFieldValues(m, Head(evs)), Tail(evs))

\* fieldValue started from an empty collection whatever clear is
StartFieldValue_Empty(m, i, clear) ==
  [m EXCEPT !.fv = [ptr |-> clear, elems |-> <<>>]]

\* lines 288-291: fieldValue is the relationship field, or with clear the
\* pointer reflect.New returns
StartFieldValue(m, i, clear) ==
  [m EXCEPT !.fv = IF clear THEN [ptr |-> TRUE, elems |-> <<>>]
                   ELSE [ptr |-> FALSE, elems |-> m.owners[i].field]]

\* lines 312-314
SetIfNoError(m, i) == IF ~m.panic /\ m.err = Nil THEN FieldSetCollection(m, i) ELSE m

\* appendToRelations(source, rv, clear) (lines 275-316); source is owner i.
\* Line 288 reads the relationship field of reflectValue, not of source:
\* Field.ReflectValueOf of a slice of owners panics.
appendToRelations(m, i, rv, clear) ==
  IF m.panic THEN m
  ELSE IF relationship \in {HasOne, BelongsTo}
    THEN IF rv.k = "Slice"
           THEN IF Len(Evs(rv)) > 0 THEN FieldSetValue(m, i, Evs(rv)[1]) ELSE m
           ELSE FieldSetValue(m, i, Evs(rv)[1])
  ELSE IF ownerKind = "Slice" THEN Panic(m)
  ELSE SetIfNoError(AppendAll(StartFieldValue(m, i, clear), Evs(rv)), i)

\* ------------------------------------------------------ persistence layer
\* One call of the query/execution layer.  The call numbered failAt among
\* the calls of the handler fails: it changes no row and its error is kept
\* in DB.Error; any other call applies its effect.
ExecResult(m, verb, failed, newLinks, newOwners) ==
  [m EXCEPT !.calls = Append(@, [verb |-> verb, failed |-> failed]),
            !.dbErr = IF failed /\ @ = Nil THEN ExecutionError ELSE @,
            !.links = IF failed THEN @ ELSE newLinks,
            !.owners = IF failed THEN @ ELSE newOwners]

Exec(m, verb, failAt, newLinks, newOwners) ==
  ExecResult(m, verb, Len(m.calls) + 1 = failAt, newLinks, newOwners)

\* saving an owner cascades to its relationship field: a has-one/has-many
\* element gets the owner's key as its foreign key, a belongs-to owner gets
\* the element's key as its foreign key, a many2many gets a join row
RECURSIVE CascadeElems(_, _, _)
CascadeElem(ls, oid, r) ==
  CASE relationship \in {HasOne, HasMany} -> {l \in ls : l[2] # r} \cup {<<oid, r>>}
    [] relationship = BelongsTo -> {l \in ls : l[1] # oid} \cup {<<oid, r>>}
    [] OTHER -> ls \cup {<<oid, r>>}

CascadeElems(ls, oid, elems) ==
  IF elems = <<>> THEN ls
  ELSE CascadeElems(CascadeElem(ls, oid, Head(elems).id), oid, Tail(elems))

\* a saved owner whose primary key was zero is inserted and gets a key
SavedOwners(os) == [i \in DOMAIN os |-> [os[i] EXCEPT !.id = IF @ = 0 THEN FreshId ELSE @]]

RECURSIVE CascadeOwners(_, _, _)
CascadeOwners(ls, os, i) ==
  IF i > Len(os) THEN ls
  ELSE CascadeOwners(CascadeElems(ls, os[i].id, os[i].field), os, i + 1)

\* DB.Save(owners) and DB.Select(selectedColumns).Save(owners)
Save(m, verb, failAt) ==
  Exec(m, verb, failAt, CascadeOwners(m.links, SavedOwners(m.owners), 1),
       SavedOwners(m.owners))

\* ------------------------------------------------------- saveAssociation
\* lines 341-343 and 354
NoteZeroKey(m, i) ==
  IF m.panic THEN m ELSE [m EXCEPT !.hasZero = @ \/ IsZeroKey(m.owners[i])]

\* the loop of lines 338-344 from index i; values[i] panics past the end
RECURSIVE SaveLoopSlice(_, _, _, _)
SaveLoopSlice(m, values, clear, i) ==
  IF m.panic \/ i > Len(m.owners) THEN m
  ELSE IF i > Len(values) THEN Panic(m)
  ELSE SaveLoopSlice(NoteZeroKey(appendToRelations(m, i, values[i], clear), i),
                     values, clear, i + 1)

RECURSIVE ZeroAll(_, _)
ZeroAll(m, i) == IF i > Len(m.owners) THEN m ELSE ZeroAll(FieldSetZero(m, i), i + 1)

\* the loop of lines 350-352
RECURSIVE SaveLoopStruct(_, _, _, _)
SaveLoopStruct(m, values, clear, idx) ==
  IF idx > Len(values) THEN m
  ELSE SaveLoopStruct(appendToRelations(m, 1, values[idx], clear /\ idx = 1),
                      values, clear, idx + 1)

\* lines 326-355: the in-memory phase
SaveInMemory(m, clear, values) ==
  IF ownerKind = "Slice"
    THEN IF Len(values) # Len(m.owners)
           THEN IF clear /\ Len(values) = 0
                  THEN ZeroAll(m, 1)
                  ELSE SaveLoopSlice(SetErr(m, LengthMismatch), values, clear, 1)
           ELSE SaveLoopSlice(m, values, clear, 1)
    ELSE NoteZeroKey(
           SaveLoopStruct(IF clear /\ Len(values) = 0 THEN FieldSetZero(m, 1) ELSE m,
                          values, clear, 1), 1)

\* lines 357-361
SaveStep(m, failAt) ==
  IF m.panic THEN m
  ELSE IF m.hasZero THEN Save(m, "Save", failAt)
  ELSE Save(m, "SelectSave", failAt)

\* saveAssociation restoring the relationship fields when the save fails
RollBack(m, m2) ==
  IF m2.calls # <<>> /\ m2.calls[Len(m2.calls)].failed
    THEN [m2 EXCEPT !.owners = m.owners] ELSE m2

saveAssociation_RollsBack(m, clear, values, failAt) ==
  RollBack(m, SaveStep(SaveInMemory([m EXCEPT !.hasZero = FALSE], clear, values), failAt))

\* saveAssociation(clear, values...) (lines 272-362)
saveAssociation(m, clear, values, failAt) ==
  SaveStep(SaveInMemory([m EXCEPT !.hasZero = FALSE], clear, values), failAt)

\* ---------------------------------------------------------------- Replace
OwnerIds(os) == {os[i].id : i \in DOMAIN os}
FieldIds(o) == {o.field[j].id : j \in DOMAIN o.field}

\* lines 92-99: the columns the update of the stale rows sets to NULL are
\* the foreign keys of the references that are not OwnPrimaryKey
StaleForeignKeys == SelectSeq(References(relationship), LAMBDA ref : ~ref.OwnPrimaryKey)

\* lines 101-103: UpdateColumns(updateMap) on the related rows selected by
\* foreignKeys IN (keys of the owners); an empty updateMap changes no row
StaleUpdate(m, failAt) ==
  Exec(m, "UpdateColumns", failAt,
       IF StaleForeignKeys = <<>> THEN m.links
       ELSE {l \in m.links : l[1] \notin OwnerIds(m.owners)},
       m.owners)

\* generateConds without the condition on the owner key
generateConds_AnyOwner(o) == [own |-> 0..FreshId, notRel |-> FieldIds(o)]

\* generateConds(rv) (lines 125-137): owner key IN (key of rv) AND NOT
\* related key IN (keys of the relationship field of rv)
generateConds(o) == [own |-> {o.id}, notRel |-> FieldIds(o)]

\* lines 139-148: one condition per owner, all handed to one Where, which
\* joins them with AND; Delete removes the join rows that satisfy them
StaleDelete(m, failAt) ==
  Exec(m, "Delete", failAt,
       {l \in m.links : \E i \in DOMAIN m.owners :
          l[1] \notin generateConds(m.owners[i]).own
          \/ l[2] \in generateConds(m.owners[i]).notRel},
       m.owners)

\* lines 83-149: the switch on rel.Type after saveAssociation
StalePhase(m, failAt) ==
  IF m.panic THEN m
  ELSE IF relationship \in {HasOne, HasMany} THEN StaleUpdate(m, failAt)
  ELSE IF relationship = Many2Many THEN StaleDelete(m, failAt)
  ELSE m

\* Replace without the check of association.Error
Replace_Unguarded(m, values, failAt) ==
  StalePhase(saveAssociation(m, TRUE, values, failAt), failAt)

\* Replace(values...) (lines 77-152)
Replace(m, values, failAt) ==
  IF m.err # Nil THEN m
  ELSE StalePhase(saveAssociation(m, TRUE, values, failAt), failAt)

\* line 67: association.Error = association.Replace(values...)
AssignReturned(m) == IF m.panic THEN m ELSE SetErr(m, m.err)

\* Append(values...) (lines 62-75)
AppendOp(m, values, failAt) ==
  IF m.err # Nil THEN m
  ELSE IF relationship \in {HasOne, BelongsTo}
    THEN IF Len(values) > 0
           THEN AssignReturned(Replace(m, values, failAt))
           ELSE m
  ELSE saveAssociation(m, FALSE, values, failAt)

\* ----------------------------------------------------------------- Delete
\* lines 166-179: the key field read from the given values and from the
\* elements of the relationship field: the foreign key of the related
\* entity for an OwnPrimaryKey reference without join table, the primary
\* key of the related entity otherwise
RelFields ==
  LET refs == SelectSeq(References(relationship),
                LAMBDA ref : ref.PrimaryValue = ""
                             /\ (~HasJoinTable(relationship) \/ ~ref.OwnPrimaryKey))
  IN [j \in DOMAIN refs |-> IF refs[j].OwnPrimaryKey THEN "ForeignKey" ELSE "PrimaryKey"]

KeyOf(e) == [j \in DOMAIN RelFields |-> IF RelFields[j] = "ForeignKey" THEN e.fk ELSE e.id]

\* schema.GetIdentityFieldValuesMapFromValues(values, relFields)
RelValuesMap(values) == {KeyOf(values[j]) : j \in DOMAIN values}

\* lines 181-194: the rows of the current owners (conds) whose foreignKeys
\* column is IN the keys of the given values lose their association
ColumnOf(l) == [j \in DOMAIN RelFields |-> IF RelFields[j] = "ForeignKey" THEN l[1] ELSE l[2]]

DeleteRows(m, values, failAt) ==
  Exec(m, IF relationship = Many2Many THEN "Delete" ELSE "UpdateColumns", failAt,
       {l \in m.links : l[1] \notin OwnerIds(m.owners)
                         \/ ColumnOf(l) \notin RelValuesMap(values)},
       m.owners)

\* cleanUpDeletedRelations(data) (lines 197-225); data is owner i.  For a
\* struct field, line 218 reads the key fields from the owner, not from the
\* related value it holds: what it finds there depends on the layout of the
\* owner type, stray stands for it.
cleanUpDeletedRelations(m, i, values, stray) ==
  IF m.owners[i].field = <<>> THEN m
  ELSE IF relationship \in {HasMany, Many2Many}
    THEN [m EXCEPT !.owners[i].field =
            SelectSeq(@, LAMBDA e : KeyOf(e) \notin RelValuesMap(values))]
  ELSE IF [j \in DOMAIN RelFields |-> stray] \in RelValuesMap(values)
    THEN [m EXCEPT !.owners[i].field = <<>>]
  ELSE m

RECURSIVE CleanUpAll(_, _, _, _)
CleanUpAll(m, i, values, stray) ==
  IF i > Len(m.owners) THEN m
  ELSE CleanUpAll(cleanUpDeletedRelations(m, i, values, stray), i + 1, values, stray)

\* the reconciliation run whatever tx.Error is
Reconcile_Always(m, values, stray) ==
  IF m.dbErr = Nil THEN CleanUpAll(m, 1, values, stray)
  ELSE SetErr(CleanUpAll(m, 1, values, stray), m.dbErr)

\* lines 196-237: reconcile the fields, or keep tx.Error
Reconcile(m, values, stray) ==
  IF m.dbErr = Nil THEN CleanUpAll(m, 1, values, stray) ELSE SetErr(m, m.dbErr)

\* Delete(values...) (lines 154-240)
DeleteOp(m, values, failAt, stray) ==
  IF m.err # Nil THEN m
  ELSE Reconcile(DeleteRows(m, values, failAt), values, stray)

\* ------------------------------------------------------------ Find, Count
\* rel.ToQueryConditions(reflectValue): the rows associated with the owners
Selected(m) == {l \in m.links : l[1] \in OwnerIds(m.owners)}

\* Find(out, conds...) (lines 36-60)
\* association.Error = tx.Find(out, conds...).Error (line 56, line 266)
SetErrFromDb(m) == SetErr(m, m.dbErr)

FindOp(m, failAt) ==
  IF m.err # Nil THEN m
  ELSE SetErrFromDb(Exec(m, "Find", failAt, m.links, m.owners))

\* Count without the assignment of line 266
CountOp_DropsError(m, failAt) ==
  IF m.err # Nil THEN m
  ELSE Exec(m, "Count", failAt, m.links, m.owners)

\* Count() (lines 246-270); the named result count is written by tx.Count,
\* and is 0 when the error tx.Count returns is set
CountOp(m, failAt) ==
  IF m.err # Nil THEN m
  ELSE SetErrFromDb(Exec(m, "Count", failAt, m.links, m.owners))

\* ------------------------------------------------------------ the handle
RECURSIVE SetToSeq(_)
SetToSeq(S) ==
  IF S = {} THEN <<>>
  ELSE LET x == CHOOSE y \in S : \A z \in S : y <= z IN <<x>> \o SetToSeq(S \ {x})

\* the rows a relationship kind can hold: a related row has one foreign
\* key (has-one, has-many), an owner row has one (has-one, belongs-to)
ValidLinks(kind, ls) ==
  /\ kind \in {HasOne, HasMany} => \A a, b \in ls : a[2] = b[2] => a = b
  /\ kind \in {HasOne, BelongsTo} => \A a, b \in ls : a[1] = b[1] => a = b

\* the relationship field of owner id after preloading it from the rows
Loaded(kind, ls, id) ==
  LET rs == SetToSeq({l[2] : l \in {x \in ls : x[1] = id}})
  IN [j \in DOMAIN rs |-> Elem(rs[j], IF kind \in {HasOne, HasMany} THEN id ELSE 0)]

OwnerSets == {<<a>> : a \in 0..1} \cup {<<a, 2>> : a \in 0..1}

NoOp == [name |-> "none", values |-> <<>>]

Init ==
  /\ schemaKind \in Kinds
  /\ ownerKind \in {"Struct", "Slice"}
  /\ links \in {ls \in SUBSET ({1, OtherOwner} \X RelIds) :
                  Cardinality(ls) <= MaxInitLinks /\ ValidLinks(schemaKind, ls)}
  /\ \E ids \in OwnerSets, preloaded \in BOOLEAN :
       /\ ownerKind = "Struct" => Len(ids) = 1
       /\ (ownerKind = "Slice" /\ Len(ids) = 1) => ~IsZeroKey([id |-> ids[1]])
       /\ owners = [i \in DOMAIN ids |->
                      [id |-> ids[i],
                       field |-> IF preloaded THEN Loaded(schemaKind, links, ids[i]) ELSE <<>>]]
  /\ bound = FALSE
  /\ relationship = Nil
  /\ err = Nil
  /\ dbErr = Nil
  /\ panicked = FALSE
  /\ ops = 0
  /\ lastOp = NoOp
  /\ pre = [err |-> Nil, owners |-> owners, links |-> links, dbErr |-> Nil, op |-> "none"]
  /\ calls = <<>>
  /\ writes = <<>>
  /\ ret = Nil
  /\ count = 0
  /\ out = {}

\* db.Statement.Schema.Relationships.Relations[column]
Relations(column) == IF column = "Rel" THEN schemaKind ELSE Nil

\* db.Association(column) (lines 20-34)
Association(column, parseOk) ==
  /\ ~bound
  /\ bound' = TRUE
  /\ relationship' = IF parseOk THEN Relations(column) ELSE Nil
  /\ err' = IF ~parseOk THEN ErrParse
            ELSE IF Relations(column) = Nil THEN ErrUnsupportedRelation
            ELSE Nil
  /\ UNCHANGED <<schemaKind, ownerKind, owners, links, dbErr, panicked, ops,
                 lastOp, pre, calls, writes, ret, count, out>>

\* the handler starts from the current state
M0 == [owners |-> owners, err |-> err, dbErr |-> dbErr, links |-> links,
       calls |-> <<>>, writes |-> <<>>, panic |-> FALSE, hasZero |-> FALSE,
       fv |-> [ptr |-> FALSE, elems |-> <<>>]]

CanCall == bound /\ ~panicked /\ ops < MaxOps

\* the handler has run to its return (or to a panic)
Done(name, values, m, failAt) ==
  /\ failAt <= Len(m.calls)
  /\ owners' = m.owners
  /\ links' = m.links
  /\ err' = m.err
  /\ dbErr' = m.dbErr
  /\ panicked' = m.panic
  /\ calls' = m.calls
  /\ writes' = m.writes
  /\ ret' = IF m.panic THEN "panic" ELSE m.err
  /\ ops' = ops + 1
  /\ lastOp' = [name |-> name, values |-> values]
  /\ pre' = [err |-> err, owners |-> owners, links |-> links, dbErr |-> dbErr,
             op |-> lastOp.name]
  /\ UNCHANGED <<schemaKind, ownerKind, bound, relationship>>

FindCall ==
  /\ CanCall
  /\ \E failAt \in 0..1 :
       /\ Done("Find", <<>>, FindOp(M0, failAt), failAt)
       /\ out' = IF failAt = 0 /\ err = Nil THEN {l[2] : l \in Selected(M0)} ELSE out
       /\ UNCHANGED count

CountCall ==
  /\ CanCall
  /\ \E failAt \in 0..1 :
       /\ Done("Count", <<>>, CountOp(M0, failAt), failAt)
       /\ count' = IF err = Nil /\ dbErr' = Nil THEN Cardinality(Selected(M0)) ELSE 0
       /\ UNCHANGED out

AppendCall ==
  /\ CanCall
  /\ \E values \in SeqsUpTo(Values, MaxVals), failAt \in 0..2 :
       /\ Done("Append", values, AppendOp(M0, values, failAt), failAt)
       /\ UNCHANGED <<count, out>>

ReplaceCall ==
  /\ CanCall
  /\ \E values \in SeqsUpTo(Values, MaxVals), failAt \in 0..2 :
       /\ Done("Replace", values, Replace(M0, values, failAt), failAt)
       /\ UNCHANGED <<count, out>>

\* Clear() (lines 242-244)
ClearCall ==
  /\ CanCall
  /\ \E failAt \in 0..2 :
       /\ Done("Clear", <<>>, Replace(M0, <<>>, failAt), failAt)
       /\ UNCHANGED <<count, out>>

DeleteCall ==
  /\ CanCall
  /\ \E values \in SeqsUpTo(TStructs, MaxVals), failAt \in 0..1, stray \in 0..1 :
       /\ (relationship \in {HasMany, Many2Many, Nil} \/ err # Nil) => stray = 0
       /\ Done("Delete", values, DeleteOp(M0, values, failAt, stray), failAt)
       /\ UNCHANGED <<count, out>>

Next ==
  \/ \E column \in {"Rel", "Other"}, parseOk \in BOOLEAN : Association(column, parseOk)
  \/ FindCall
  \/ CountCall
  \/ AppendCall
  \/ ReplaceCall
  \/ ClearCall
  \/ DeleteCall

Spec == Init /\ [][Next]_vars

\* ================================================================ claims
Called(names) == lastOp.name \in names
FieldsOf(os) == [i \in DOMAIN os |-> os[i].field]
AllStructT(values) == \A j \in DOMAIN values : values[j].k = "Struct" /\ values[j].ty = "T"
ValueIds(values) == {values[j].id : j \in DOMAIN values}
ElemsOf(values) == [j \in DOMAIN values |-> Elem(values[j].id, values[j].fk)]
IssuedVerb(verbs) == \E j \in DOMAIN calls : calls[j].verb \in verbs
FailedVerb(verbs) == \E j \in DOMAIN calls : calls[j].verb \in verbs /\ calls[j].failed
\* association.Error before the operation, then every value assigned to it
ErrHistory == <<pre.err>> \o writes

\* C1: an operation called on a handle whose error is already set issues
\* no persistence call, changes no owner and no row, leaves the error as it
\* was and returns it; Count returns 0.
C1_ErroredHandleIsNoOp ==
  (~Called({"none"}) /\ pre.err # Nil) =>
    /\ calls = <<>>
    /\ writes = <<>>
    /\ owners = pre.owners
    /\ links = pre.links
    /\ err = pre.err
    /\ ret = pre.err
    /\ (Called({"Count"}) => count = 0)

C1_Witness ==
  /\ pre.err = ErrUnsupportedRelation
  /\ Called({"Replace"})
  /\ lastOp.values # <<>>
  /\ ret = ErrUnsupportedRelation

\* C2: once association.Error is non-nil, no later assignment resets it to
\* nil or replaces it by another error.
C2_FirstWriteWins ==
  \A j, k \in DOMAIN ErrHistory :
    (j < k /\ ErrHistory[j] # Nil) => ErrHistory[k] = ErrHistory[j]

\* C3: with a slice of N owners and M values, M # N and M > 0, Append and
\* Replace return the length-mismatch error and issue no persistence call.
C3_LengthMismatchNoPersistence ==
  (/\ Called({"Append", "Replace"})
   /\ pre.err = Nil
   /\ ownerKind = "Slice"
   /\ Len(lastOp.values) > 0
   /\ Len(lastOp.values) # Len(pre.owners)) =>
    /\ ret = LengthMismatch
    /\ calls = <<>>

\* C4: when saveAssociation leaves an error on the handle, Replace issues
\* neither the update that nulls the stale foreign keys nor the delete of
\* the stale join rows.
C4_NoStalePhaseAfterSaveError ==
  (/\ Called({"Replace"})
   /\ pre.err = Nil
   /\ ~panicked
   /\ \E j \in DOMAIN writes : writes[j] # Nil) =>
    ~IssuedVerb({"UpdateColumns", "Delete"})

\* C5: after Replace(V1); Replace(V2) on a has-one/has-many relationship of
\* one owner, the related rows whose foreign key is the owner's key are
\* exactly the rows of V2 and the relationship field holds V2.
C5_ReplaceIsFullOverwrite ==
  (/\ Called({"Replace"})
   /\ pre.op = "Replace"
   /\ pre.err = Nil
   /\ relationship \in {HasOne, HasMany}
   /\ ownerKind = "Struct"
   /\ ~IsZeroKey(pre.owners[1])
   /\ AllStructT(lastOp.values)
   /\ Len(lastOp.values) = Cardinality(ValueIds(lastOp.values))
   /\ (relationship = HasOne => Len(lastOp.values) = 1)
   /\ ~FailedVerb({"Save", "SelectSave", "UpdateColumns"})) =>
    /\ ~panicked
    /\ {l[2] : l \in {x \in links : x[1] = owners[1].id}} = ValueIds(lastOp.values)
    /\ owners[1].field = ElemsOf(lastOp.values)

\* C6: Delete(values) on has-one/has-many/many2many changes no row of
\* another owner and no row of the owners that matches none of the values.
C6_DeleteScoping ==
  (/\ Called({"Delete"})
   /\ relationship \in {HasOne, HasMany, Many2Many}) =>
    \A l \in pre.links :
      (l[1] \notin OwnerIds(pre.owners) \/ l[2] \notin ValueIds(lastOp.values))
        => l \in links

\* C7: Replace (and Clear) on a many2many relationship deletes no join row
\* whose owner key is the key of an owner outside the OwnerSet.
C7_Many2ManyJoinIsolation ==
  (/\ Called({"Replace", "Clear"})
   /\ relationship = Many2Many) =>
    \A l \in pre.links :
      (l[1] \notin OwnerIds(pre.owners) /\ l[1] \notin OwnerIds(owners)) => l \in links

C7_Witness ==
  /\ Called({"Replace", "Clear"})
  /\ relationship = Many2Many
  /\ \E j \in DOMAIN calls : calls[j].verb = "Delete" /\ ~calls[j].failed
  /\ links # pre.links
  /\ \E b \in links, a \in pre.links :
       /\ b[1] = OtherOwner
       /\ a[1] \in OwnerIds(owners)
       /\ a[2] = b[2]

\* C8: a failure of the save of saveAssociation, of the update or of the
\* delete of Replace is returned by Append/Replace/Clear and left in
\* association.Error.
C8_PersistenceFailureSurfaced ==
  (/\ Called({"Append", "Replace", "Clear"})
   /\ ~panicked
   /\ FailedVerb({"Save", "SelectSave", "UpdateColumns", "Delete"})) =>
    /\ ret # Nil
    /\ err = ExecutionError

\* C9: when the update or the delete issued by Delete fails, the error of
\* the handle is that failure and no relationship field has changed.
C9_FailedDeleteLeavesMemory ==
  (/\ Called({"Delete"})
   /\ FailedVerb({"UpdateColumns", "Delete"})) =>
    /\ err = ExecutionError
    /\ ret = ExecutionError
    /\ owners = pre.owners

C9_Witness ==
  /\ Called({"Delete"})
  /\ FailedVerb({"UpdateColumns", "Delete"})
  /\ relationship \in {HasMany, Many2Many}
  /\ \E i \in DOMAIN owners : \E j \in DOMAIN owners[i].field :
       KeyOf(owners[i].field[j]) \in RelValuesMap(lastOp.values)

C11_AppendKeepsExisting ==
  (/\ Called({"Append"})
   /\ pre.err = Nil
   /\ relationship \in {HasMany, Many2Many}
   /\ ownerKind = "Struct"
   /\ AllStructT(lastOp.values)) =>
    /\ ~panicked
    /\ \A l \in pre.links : l[1] = pre.owners[1].id => l \in links
    /\ relationship = Many2Many => pre.links \subseteq links
    /\ owners[1].field = pre.owners[1].field \o ElemsOf(lastOp.values)
    /\ ~FailedVerb({"Save", "SelectSave"}) =>
         \A r \in ValueIds(lastOp.values) : <<owners[1].id, r>> \in links

C11_Witness ==
  /\ Called({"Append"})
  /\ pre.err = Nil
  /\ relationship \in {HasMany, Many2Many}
  /\ ownerKind = "Struct"
  /\ lastOp.values # <<>>
  /\ AllStructT(lastOp.values)
  /\ ~FailedVerb({"Save", "SelectSave"})
  /\ pre.owners[1].field # <<>>
  /\ \E l \in pre.links : l[1] = pre.owners[1].id /\ l[2] \notin ValueIds(lastOp.values)
  /\ links # pre.links

\* C12: Append(v1, ..., vk), k >= 1, on a has-one/belongs-to relationship
\* of one owner leaves v1 in the owner's relationship field, whatever it
\* held before, and ignores the values after the first; Append() without a
\* value changes nothing and issues no persistence call.
C12_AppendSingularKeepsFirst ==
  (/\ Called({"Append"})
   /\ pre.err = Nil
   /\ relationship \in {HasOne, BelongsTo}
   /\ ownerKind = "Struct"
   /\ AllStructT(lastOp.values)) =>
    /\ lastOp.values # <<>> => owners[1].field = <<ElemsOf(lastOp.values)[1]>>
    /\ lastOp.values = <<>> =>
         (calls = <<>> /\ owners = pre.owners /\ links = pre.links)

\* C13: on a has-many/many2many relationship of one owner, an Append or a
\* Replace given a value whose type is not assignable to the element type
\* of the relationship, at whatever position, ends with the error
\* UnsupportedDataType and leaves the relationship field as it was.
C13_UnsupportedTypeLeavesField ==
  (/\ Called({"Append", "Replace"})
   /\ pre.err = Nil
   /\ relationship \in {HasMany, Many2Many}
   /\ ownerKind = "Struct"
   /\ \E j \in DOMAIN lastOp.values : lastOp.values[j].ty # "T") =>
    /\ ~panicked
    /\ err = UnsupportedDataType
    /\ owners[1].field = pre.owners[1].field

\* C14: after Clear(), for every relationship kind and for one owner as for
\* a slice of owners, no row is associated with an owner, every relationship
\* field is empty and no error is returned; a second Clear() right after
\* leaves the same rows and fields and returns no error.
C14_ClearIsIdempotent ==
  (/\ Called({"Clear"})
   /\ pre.err = Nil
   /\ ~FailedVerb({"Save", "SelectSave", "UpdateColumns", "Delete"})) =>
    /\ ~panicked
    /\ ret = Nil
    /\ \A l \in links : l[1] \notin OwnerIds(owners)
    /\ \A i \in DOMAIN owners : owners[i].field = <<>>
    /\ pre.op = "Clear" => (links = pre.links /\ owners = pre.owners)

C16_ReplacePerOwnerStaleRows ==
  (/\ Called({"Replace"})
   /\ pre.err = Nil
   /\ relationship = Many2Many
   /\ ownerKind = "Slice"
   /\ Len(pre.owners) >= 2
   /\ Len(lastOp.values) \in {0, Len(pre.owners)}
   /\ AllStructT(lastOp.values)
   /\ \A i \in DOMAIN pre.owners : ~IsZeroKey(pre.owners[i])
   /\ ~FailedVerb({"Save", "SelectSave", "Delete"})) =>
    /\ ~panicked
    /\ \A i \in DOMAIN owners : \A l \in links :
         l[1] = owners[i].id =>
           (lastOp.values # <<>> /\ l[2] = lastOp.values[i].id)
    /\ \A i \in DOMAIN owners : \A l \in pre.links :
         (l[1] = owners[i].id /\ lastOp.values # <<>> /\ l[2] = lastOp.values[i].id)
           => l \in links

\* C17: after a Delete(values) that returns no error, every owner's field
\* is reconciled exactly: a collection field holds, in their order, the
\* previous elements whose key (the key fields of the relationship, read
\* from the element) is the key of none of the values; a field holding one
\* related value is zeroed if and only if the key of that value is the key
\* of one of the values.
C17_DeleteReconciliationExact ==
  (/\ Called({"Delete"})
   /\ pre.err = Nil
   /\ ret = Nil) =>
    \A i \in DOMAIN owners :
      /\ relationship \in {HasMany, Many2Many} =>
           owners[i].field =
             SelectSeq(pre.owners[i].field,
                       LAMBDA e : KeyOf(e) \notin RelValuesMap(lastOp.values))
      /\ (relationship \in {HasOne, BelongsTo} /\ pre.owners[i].field # <<>>) =>
           /\ owners[i].field \in {<<>>, pre.owners[i].field}
           /\ owners[i].field = <<>> <=>
                KeyOf(pre.owners[i].field[1]) \in RelValuesMap(lastOp.values)

\* C18: the save issued by saveAssociation is a full save of the owners if
\* and only if an owner has a zero primary key, and a save restricted to
\* the selected columns otherwise, on every path of Append, Replace and
\* Clear.
C18_FullSaveIffZeroKey ==
  (/\ Called({"Append", "Replace", "Clear"})
   /\ pre.err = Nil
   /\ IssuedVerb({"Save", "SelectSave"})) =>
    (calls[1].verb = "Save" <=> \E i \in DOMAIN pre.owners : IsZeroKey(pre.owners[i]))

\* C19: Append of N values on a has-many/many2many relationship of a slice
\* of N owners pairs them by position: the field of owner i is afterwards
\* its previous contents followed by values[i], and holds nothing taken
\* from another value or from another owner's field.
C19_AppendPairsPositionally ==
  (/\ Called({"Append"})
   /\ pre.err = Nil
   /\ relationship \in {HasMany, Many2Many}
   /\ ownerKind = "Slice"
   /\ Len(lastOp.values) = Len(pre.owners)
   /\ AllStructT(lastOp.values)) =>
    /\ ~panicked
    /\ \A i \in DOMAIN owners :
         owners[i].field = Append(pre.owners[i].field, ElemsOf(lastOp.values)[i])

\* C20: Append() without a value on a has-many/many2many relationship of a
\* slice of owners sets no length-mismatch error, returns no error and
\* leaves every relationship field as it was.
C20_AppendNothingOnSlice ==
  (/\ Called({"Append"})
   /\ pre.err = Nil
   /\ relationship \in {HasMany, Many2Many}
   /\ ownerKind = "Slice"
   /\ lastOp.values = <<>>) =>
    /\ ~panicked
    /\ \A j \in DOMAIN writes : writes[j] # LengthMismatch
    /\ ret = Nil
    /\ FieldsOf(owners) = FieldsOf(pre.owners)

====
